---- MODULE Spec2Model ----
(***************************************************************************)
(* Model of homework.py: a poller that asks the review-status API for the  *)
(* homework statuses, derives one message per cycle and forwards it to a   *)
(* Telegram chat unless it equals the message sent last.                   *)
(*                                                                         *)
(* Text literals: the lexer accepts ASCII only, so every Cyrillic literal  *)
(* of the source is transliterated letter for letter (one literal of the   *)
(* source = one literal here, distinct literals stay distinct).            *)
(*                                                                         *)
(* Python values: a missing dictionary key / None is the string Absent in  *)
(* text positions and NoValue (-1) in integer positions.                   *)
(***************************************************************************)
EXTENDS Integers, Sequences, FiniteSets, TLC

VARIABLES
    pc,                \* position of main(): start, fetch, cursor, validate,
                       \* interpret, deliver, except, finally, exited, crashed
    env,               \* the three environment values read at import time
    timestamp,         \* main(): the cursor
    previous_message,  \* main(): the text sent last
    response,          \* main(): decoded payload of this cycle
    homework,          \* main(): the list check_response returned
    message,           \* main(): the text derived in this cycle
    error,             \* the exception being handled or propagating
    raising,           \* an exception is propagating out of the except clause
    http,              \* history: what requests.get did in this cycle
    cursor0,           \* history: the cursor when this cycle started
    last0,             \* history: previous_message when this cycle started
    failed0,           \* history: the text whose send at line 153 failed in
                       \* the previous cycle, "" if there was none
    slept,             \* history: the time.sleep calls since the last fetch
    validated,         \* history: outcome of check_response in this cycle
    parsed,            \* history: parse_status was called in this cycle
    attempts,          \* history: bot.send_message calls of this cycle
    delivered,         \* history: texts of the last two successful sends
    effects            \* history: kinds of I/O performed since startup

vars == <<pc, env, timestamp, previous_message, response, homework, message,
          error, raising, http, cursor0, last0, failed0, slept, validated,
          parsed, attempts, delivered, effects>>

-----------------------------------------------------------------------------
(* Bounds of the explored inputs *)

MaxTime == 2          \* int(time.time()) reads a value in 1..MaxTime
MaxTail == 1          \* records that follow the first one in "homeworks"

(* Program constants *)

RETRY_PERIOD == 600
HTTP_OK == 200

Absent == "<absent>"
NoValue == -1

ENDPOINT == "https://practicum.yandex.ru/api/user_api/homework_statuses/"

HOMEWORK_VERDICTS ==
    [s \in {"approved", "reviewing", "rejected"} |->
        CASE s = "approved"  -> "Rabota proverena: revyueru vsyo ponravilos. Ura!"
          [] s = "reviewing" -> "Rabota vzyata na proverku revyuerom."
          [] s = "rejected"  -> "Rabota proverena: u revyuera est zamechaniya."]

NoNewStatuses == "Novyh statusov u domashnih rabot net"
FailurePrefix == "Sboy v rabote programmy: "

-----------------------------------------------------------------------------
(* Python values *)

\* truthiness of an environment value / a string constant
Truthy(v) == v # Absent /\ v # ""

\* str() of a value placed in an f-string: None prints as "None"
PyStr(v) == IF v = Absent THEN "None" ELSE v

Exc(type, text, cause) == [type |-> type, text |-> text, cause |-> cause]
NoError == Exc("none", "", "none")

-----------------------------------------------------------------------------
(* Inputs *)

Times == 1..MaxTime

TokenValues == {Absent, "", "token"}
Envs == [PRACTICUM_TOKEN : TokenValues,
         TELEGRAM_TOKEN : TokenValues,
         TELEGRAM_CHAT_ID : TokenValues]

Record(n, l, s) == [homework_name |-> n, lesson_name |-> l, status |-> s]

Statuses == {"approved", "reviewing", "rejected", "unknown_status", Absent}

FirstRecords == {Record(n, l, s) : n \in {"X", Absent}, l \in {"Y", Absent},
                                   s \in Statuses}
TailRecords == {Record("Z", "Y", "rejected"), Record(Absent, "Y", "unknown_status")}

RECURSIVE Tails(_)
Tails(n) == IF n = 0 THEN {<<>>}
            ELSE Tails(n - 1) \cup
                 {Append(t, r) : t \in {u \in Tails(n - 1) : Len(u) = n - 1},
                                 r \in TailRecords}

HomeworkLists == {<<>>} \cup {<<r>> \o t : r \in FirstRecords, t \in Tails(MaxTail)}

\* a decoded JSON body: kind "dict" with optional keys, or any other value
Payload(kind, hw, items, cdate, cdata) ==
    [kind |-> kind, hw |-> hw, items |-> items,
     current_date |-> cdate, current_data |-> cdata]

NotADict == Payload("list", "absent", <<>>, NoValue, NoValue)
NoPayload == Payload("none", "absent", <<>>, NoValue, NoValue)

ServerDates == 0..MaxTime

Payloads ==
    {NotADict}
    \cup {Payload("dict", "absent", <<>>, d, NoValue) : d \in {NoValue, MaxTime}}
    \cup {Payload("dict", "scalar", <<>>, d, NoValue) : d \in {NoValue, MaxTime}}
    \cup {Payload("dict", "list", h, d, NoValue) :
              h \in {l \in HomeworkLists : Len(l) <= 1}, d \in {NoValue, 0, MaxTime}}
    \cup {Payload("dict", "list", h, MaxTime, NoValue) :
              h \in {l \in HomeworkLists : Len(l) > 1 /\ l[1].lesson_name # Absent}}
    \cup {Payload("dict", "list", h, d, c) :
              h \in {<<>>, <<Record("X", "Y", "approved")>>},
              d \in {NoValue, 1}, c \in {0, MaxTime}}

\* what requests.get / response.json did
Http(raised, code, decodable, body) ==
    [raised |-> raised, code |-> code, decodable |-> decodable, body |-> body]
NoHttp == Http("", 0, FALSE, NoPayload)

TransportErrors == {"ConnectionError()", "ReadTimeout()"}
StatusCodes == {HTTP_OK, 404, 503}

HttpOutcomes ==
    {Http(e, 0, FALSE, NoPayload) : e \in TransportErrors}
    \cup {Http("", c, FALSE, NoPayload) : c \in StatusCodes \ {HTTP_OK}}
    \cup {Http("", HTTP_OK, FALSE, NoPayload)}
    \cup {Http("", HTTP_OK, TRUE, p) : p \in Payloads}

\* what bot.send_message did: "" is success, otherwise the text of the error
SendOutcomes == {"", "Timed out"}

-----------------------------------------------------------------------------
(* The components, as the functions of homework.py compute them *)

\* check_tokens(): all([...]) over the three tokens and ENDPOINT
check_tokens(e) ==
    /\ Truthy(e.PRACTICUM_TOKEN)
    /\ Truthy(e.TELEGRAM_TOKEN)
    /\ Truthy(e.TELEGRAM_CHAT_ID)
    /\ Truthy(ENDPOINT)

\* HEADERS, printed with str.format
HEADERS(e) == "{'Authorization': 'OAuth " \o PyStr(e.PRACTICUM_TOKEN) \o "'}"

\* 'url = {url}, headers = {headers}, params = {params}'.format(**request_parameters)
RequestParameters(e, new_timestamp) ==
    "url = " \o ENDPOINT \o ", headers = " \o HEADERS(e)
        \o ", params = {'from_date': " \o ToString(new_timestamp) \o "}"

\* str() of AnswerError('...', error): the repr of the two arguments
AnswerErrorText(inner) == "('Oshibka pri zaprose k API', " \o inner \o ")"

\* get_api_answer(timestamp): the decoded body, or the exception that leaves
\* the function.  Every exception raised inside the try block, the
\* StatusCodeError of line 80 included, is caught at line 88 and replaced by
\* AnswerError.
get_api_answer(e, ts, now, h) ==
    LET new_timestamp == IF ts # 0 THEN ts ELSE now
        statusCodeError ==
            "StatusCodeError(\"Nedostupen API po parametram "
                \o RequestParameters(e, new_timestamp) \o "\")"
        jsonError == "JSONDecodeError('Expecting value: line 1 column 1 (char 0)')"
    IN  IF h.raised # ""
        THEN [ok |-> FALSE, body |-> NoPayload,
              error |-> Exc("AnswerError", AnswerErrorText(h.raised), "RequestException")]
        ELSE IF h.code # HTTP_OK
        THEN [ok |-> FALSE, body |-> NoPayload,
              error |-> Exc("AnswerError", AnswerErrorText(statusCodeError), "StatusCodeError")]
        ELSE IF ~h.decodable
        THEN [ok |-> FALSE, body |-> NoPayload,
              error |-> Exc("AnswerError", AnswerErrorText(jsonError), "JSONDecodeError")]
        ELSE [ok |-> TRUE, body |-> h.body, error |-> NoError]

\* check_response that forgets the 'current_date' key
check_response_without_date(r) ==
    IF r.kind # "dict"
    THEN [ok |-> FALSE, homeworks |-> <<>>,
          error |-> Exc("TypeError", "Otvet API ne yavlyaetsya slovarem", "none")]
    ELSE IF r.hw = "absent"
    THEN [ok |-> FALSE, homeworks |-> <<>>, error |-> Exc("KeyError", "", "none")]
    ELSE IF r.hw # "list"
    THEN [ok |-> FALSE, homeworks |-> <<>>,
          error |-> Exc("TypeError", "Homeworks ne yavlyaetsya spiskom", "none")]
    ELSE [ok |-> TRUE, homeworks |-> r.items, error |-> NoError]

\* check_response(response): the homeworks list or TypeError / KeyError
check_response(r) ==
    IF r.kind # "dict"
    THEN [ok |-> FALSE, homeworks |-> <<>>,
          error |-> Exc("TypeError", "Otvet API ne yavlyaetsya slovarem", "none")]
    ELSE IF r.hw = "absent" \/ r.current_date = NoValue
    THEN [ok |-> FALSE, homeworks |-> <<>>, error |-> Exc("KeyError", "", "none")]
    ELSE IF r.hw # "list"
    THEN [ok |-> FALSE, homeworks |-> <<>>,
          error |-> Exc("TypeError", "Homeworks ne yavlyaetsya spiskom", "none")]
    ELSE [ok |-> TRUE, homeworks |-> r.items, error |-> NoError]

\* parse_status that looks the verdict up with dict.get and never rejects a
\* status
parse_status_lenient(hw) ==
    IF hw.homework_name = Absent
    THEN [ok |-> FALSE, text |-> "",
          error |-> Exc("ParseError", "V otvete API domashki net klyucha homework_name", "none")]
    ELSE [ok |-> TRUE,
          text |-> "Izmenilsya status proverki raboty \"" \o PyStr(hw.homework_name)
                       \o "\" (" \o PyStr(hw.lesson_name) \o "). "
                       \o (IF hw.status \in DOMAIN HOMEWORK_VERDICTS
                           THEN HOMEWORK_VERDICTS[hw.status] ELSE "None"),
          error |-> NoError]

\* parse_status that prints the lesson where the homework name belongs
parse_status_swapped(hw) ==
    IF hw.homework_name = Absent
    THEN [ok |-> FALSE, text |-> "",
          error |-> Exc("ParseError", "V otvete API domashki net klyucha homework_name", "none")]
    ELSE IF hw.status \notin DOMAIN HOMEWORK_VERDICTS
    THEN [ok |-> FALSE, text |-> "",
          error |-> Exc("ParseError",
                        "API vozvrashchaet nedokumentirovannyy status domashney raboty",
                        "none")]
    ELSE [ok |-> TRUE,
          text |-> "Izmenilsya status proverki raboty \"" \o PyStr(hw.lesson_name)
                       \o "\" (" \o PyStr(hw.homework_name) \o "). "
                       \o HOMEWORK_VERDICTS[hw.status],
          error |-> NoError]

\* parse_status(homework): the status text or ParseError
parse_status(hw) ==
    IF hw.homework_name = Absent
    THEN [ok |-> FALSE, text |-> "",
          error |-> Exc("ParseError", "V otvete API domashki net klyucha homework_name", "none")]
    ELSE IF hw.status \notin DOMAIN HOMEWORK_VERDICTS
    THEN [ok |-> FALSE, text |-> "",
          error |-> Exc("ParseError",
                        "API vozvrashchaet nedokumentirovannyy status domashney raboty",
                        "none")]
    ELSE [ok |-> TRUE,
          text |-> "Izmenilsya status proverki raboty \"" \o PyStr(hw.homework_name)
                       \o "\" (" \o PyStr(hw.lesson_name) \o "). "
                       \o HOMEWORK_VERDICTS[hw.status],
          error |-> NoError]

\* send_message(bot, message): any exception of bot.send_message becomes
\* MessageError
send_message(text, outcome) ==
    IF outcome = ""
    THEN [ok |-> TRUE, error |-> NoError]
    ELSE [ok |-> FALSE,
          error |-> Exc("MessageError", "Oshibka otpravki soobshcheniya - " \o outcome,
                        "TelegramError")]

\* response.get('current_data', int(time.time()))
CursorOf(r, now) == IF r.current_data # NoValue THEN r.current_data ELSE now

\* the text of the last two successful sends
Push(d, m) == IF Len(d) < 2 THEN Append(d, m) ELSE <<d[2], m>>

Attempt(text, ok) == [text |-> text, ok |-> ok]

-----------------------------------------------------------------------------
(* main() *)

Init ==
    /\ pc = "start"
    /\ env \in Envs
    /\ timestamp = NoValue
    /\ previous_message = ""
    /\ response = NoPayload
    /\ homework = <<>>
    /\ message = ""
    /\ error = NoError
    /\ raising = FALSE
    /\ http = NoHttp
    /\ cursor0 = NoValue
    /\ last0 = ""
    /\ failed0 = ""
    /\ slept = <<>>
    /\ validated = "no"
    /\ parsed = FALSE
    /\ attempts = <<>>
    /\ delivered = <<>>
    /\ effects = {}

\* lines 136-142: sys.exit on a missing token, otherwise the loop is entered
Startup ==
    /\ pc = "start"
    /\ UNCHANGED slept
    /\ IF ~check_tokens(env)
       THEN /\ pc' = "exited"
            /\ UNCHANGED <<timestamp, cursor0>>
       ELSE /\ pc' = "fetch"
            /\ \E now \in Times : timestamp' = now /\ cursor0' = now
    /\ previous_message' = ""
    /\ UNCHANGED <<env, response, homework, message, error, raising, http,
                   last0, failed0, validated, parsed, attempts, delivered, effects>>

\* a fetch that moves the cursor to the local time before the request
FetchAdvancingCursor ==
    /\ pc = "fetch"
    /\ slept' = <<>>
    /\ \E now \in Times, h \in HttpOutcomes :
          LET r == get_api_answer(env, now, now, h)
          IN  /\ http' = h
              /\ timestamp' = now
              /\ IF r.ok
                 THEN /\ response' = r.body
                      /\ pc' = "cursor"
                      /\ UNCHANGED error
                 ELSE /\ error' = r.error
                      /\ pc' = "except"
                      /\ UNCHANGED response
    /\ effects' = effects \cup {"fetch"}
    /\ UNCHANGED <<env, previous_message, homework, message, raising,
                   cursor0, last0, failed0, validated, parsed, attempts, delivered>>

\* line 145: response = get_api_answer(timestamp)
Fetch ==
    /\ pc = "fetch"
    /\ slept' = <<>>
    /\ \E now \in Times, h \in HttpOutcomes :
          LET r == get_api_answer(env, timestamp, now, h)
          IN  /\ http' = h
              /\ IF r.ok
                 THEN /\ response' = r.body
                      /\ pc' = "cursor"
                      /\ UNCHANGED error
                 ELSE /\ error' = r.error
                      /\ pc' = "except"
                      /\ UNCHANGED response
    /\ effects' = effects \cup {"fetch"}
    /\ UNCHANGED <<env, timestamp, previous_message, homework, message, raising,
                   cursor0, last0, failed0, validated, parsed, attempts, delivered>>

\* line 146: timestamp = response.get('current_data', int(time.time()));
\* a body that is not a dict has no get
UpdateCursor ==
    /\ pc = "cursor"
    /\ UNCHANGED slept
    /\ IF response.kind # "dict"
       THEN /\ error' = Exc("AttributeError", "'list' object has no attribute 'get'", "none")
            /\ pc' = "except"
            /\ UNCHANGED timestamp
       ELSE /\ \E now \in Times : timestamp' = CursorOf(response, now)
            /\ pc' = "validate"
            /\ UNCHANGED error
    /\ UNCHANGED <<env, previous_message, response, homework, message, raising,
                   http, cursor0, last0, failed0, validated, parsed, attempts, delivered,
                   effects>>

\* line 147: homework = check_response(response)
Validate ==
    /\ pc = "validate"
    /\ UNCHANGED slept
    /\ LET r == check_response(response)
       IN  IF r.ok
           THEN /\ homework' = r.homeworks
                /\ validated' = "ok"
                /\ pc' = "interpret"
                /\ UNCHANGED error
           ELSE /\ error' = r.error
                /\ validated' = "failed"
                /\ pc' = "except"
                /\ UNCHANGED homework
    /\ UNCHANGED <<env, timestamp, previous_message, response, message, raising,
                   http, cursor0, last0, failed0, parsed, attempts, delivered, effects>>

\* lines 148-151 reading the last record of the list instead of the first
InterpretLastRecord ==
    /\ pc = "interpret"
    /\ UNCHANGED slept
    /\ IF homework # <<>>
       THEN LET r == parse_status(homework[Len(homework)])
            IN  /\ parsed' = TRUE
                /\ IF r.ok
                   THEN /\ message' = r.text
                        /\ pc' = "deliver"
                        /\ UNCHANGED error
                   ELSE /\ error' = r.error
                        /\ pc' = "except"
                        /\ UNCHANGED message
       ELSE /\ message' = NoNewStatuses
            /\ pc' = "deliver"
            /\ UNCHANGED <<parsed, error>>
    /\ UNCHANGED <<env, timestamp, previous_message, response, homework, raising,
                   http, cursor0, last0, failed0, validated, attempts, delivered,
                   effects>>

\* lines 148-151 without the static text for an empty list
InterpretWithoutStatic ==
    /\ pc = "interpret"
    /\ UNCHANGED slept
    /\ IF homework # <<>>
       THEN LET r == parse_status(homework[1])
            IN  /\ parsed' = TRUE
                /\ IF r.ok
                   THEN /\ message' = r.text
                        /\ pc' = "deliver"
                        /\ UNCHANGED error
                   ELSE /\ error' = r.error
                        /\ pc' = "except"
                        /\ UNCHANGED message
       ELSE /\ pc' = "deliver"
            /\ UNCHANGED <<message, parsed, error>>
    /\ UNCHANGED <<env, timestamp, previous_message, response, homework, raising,
                   http, cursor0, last0, failed0, validated, attempts, delivered, effects>>

\* lines 148-151: the message of the cycle
Interpret ==
    /\ pc = "interpret"
    /\ UNCHANGED slept
    /\ IF homework # <<>>
       THEN LET r == parse_status(homework[1])
            IN  /\ parsed' = TRUE
                /\ IF r.ok
                   THEN /\ message' = r.text
                        /\ pc' = "deliver"
                        /\ UNCHANGED error
                   ELSE /\ error' = r.error
                        /\ pc' = "except"
                        /\ UNCHANGED message
       ELSE /\ message' = NoNewStatuses
            /\ pc' = "deliver"
            /\ UNCHANGED <<parsed, error>>
    /\ UNCHANGED <<env, timestamp, previous_message, response, homework, raising,
                   http, cursor0, last0, failed0, validated, attempts, delivered, effects>>

\* lines 152-156 with previous_message assigned before the send
DeliverRemembersFirst ==
    /\ pc = "deliver"
    /\ UNCHANGED slept
    /\ IF message # previous_message
       THEN \E o \in SendOutcomes :
              LET r == send_message(message, o)
              IN  /\ attempts' = Append(attempts, Attempt(message, r.ok))
                  /\ effects' = effects \cup {"send"}
                  /\ previous_message' = message
                  /\ IF r.ok
                     THEN /\ delivered' = Push(delivered, message)
                          /\ pc' = "finally"
                          /\ UNCHANGED error
                     ELSE /\ error' = r.error
                          /\ pc' = "except"
                          /\ UNCHANGED delivered
       ELSE /\ pc' = "finally"
            /\ UNCHANGED <<previous_message, error, attempts, delivered, effects>>
    /\ UNCHANGED <<env, timestamp, response, homework, message, raising, http,
                   cursor0, last0, failed0, validated, parsed>>

\* lines 152-156 comparing the message with every text sent recently
DeliverComparingWithHistory ==
    /\ pc = "deliver"
    /\ UNCHANGED slept
    /\ IF message # previous_message
          /\ \A i \in 1..Len(delivered) : delivered[i] # message
       THEN \E o \in SendOutcomes :
              LET r == send_message(message, o)
              IN  /\ attempts' = Append(attempts, Attempt(message, r.ok))
                  /\ effects' = effects \cup {"send"}
                  /\ IF r.ok
                     THEN /\ previous_message' = message
                          /\ delivered' = Push(delivered, message)
                          /\ pc' = "finally"
                          /\ UNCHANGED error
                     ELSE /\ error' = r.error
                          /\ pc' = "except"
                          /\ UNCHANGED <<previous_message, delivered>>
       ELSE /\ pc' = "finally"
            /\ UNCHANGED <<previous_message, error, attempts, delivered, effects>>
    /\ UNCHANGED <<env, timestamp, response, homework, message, raising, http,
                   cursor0, last0, failed0, validated, parsed>>

\* lines 152-156 with a failed send tried once more
DeliverWithRetry ==
    /\ pc = "deliver"
    /\ UNCHANGED slept
    /\ IF message # previous_message
       THEN \E o \in SendOutcomes :
              LET r == send_message(message, o)
              IN  /\ effects' = effects \cup {"send"}
                  /\ IF r.ok
                     THEN /\ attempts' = Append(attempts, Attempt(message, TRUE))
                          /\ previous_message' = message
                          /\ delivered' = Push(delivered, message)
                          /\ pc' = "finally"
                          /\ UNCHANGED error
                     ELSE /\ attempts' = attempts \o <<Attempt(message, FALSE),
                                                       Attempt(message, FALSE)>>
                          /\ error' = r.error
                          /\ pc' = "except"
                          /\ UNCHANGED <<previous_message, delivered>>
       ELSE /\ pc' = "finally"
            /\ UNCHANGED <<previous_message, error, attempts, delivered, effects>>
    /\ UNCHANGED <<env, timestamp, response, homework, message, raising, http,
                   cursor0, last0, failed0, validated, parsed>>

\* lines 152-156 without the comparison with previous_message
DeliverUnconditionally ==
    /\ pc = "deliver"
    /\ UNCHANGED slept
    /\ \E o \in SendOutcomes :
          LET r == send_message(message, o)
          IN  /\ attempts' = Append(attempts, Attempt(message, r.ok))
              /\ effects' = effects \cup {"send"}
              /\ IF r.ok
                 THEN /\ previous_message' = message
                      /\ delivered' = Push(delivered, message)
                      /\ pc' = "finally"
                      /\ UNCHANGED error
                 ELSE /\ error' = r.error
                      /\ pc' = "except"
                      /\ UNCHANGED <<previous_message, delivered>>
    /\ UNCHANGED <<env, timestamp, response, homework, message, raising, http,
                   cursor0, last0, failed0, validated, parsed>>

\* lines 152-156: send the message unless it is the one sent last
Deliver ==
    /\ pc = "deliver"
    /\ UNCHANGED slept
    /\ IF message # previous_message
       THEN \E o \in SendOutcomes :
              LET r == send_message(message, o)
              IN  /\ attempts' = Append(attempts, Attempt(message, r.ok))
                  /\ effects' = effects \cup {"send"}
                  /\ IF r.ok
                     THEN /\ previous_message' = message
                          /\ delivered' = Push(delivered, message)
                          /\ pc' = "finally"
                          /\ UNCHANGED error
                     ELSE /\ error' = r.error
                          /\ pc' = "except"
                          /\ UNCHANGED <<previous_message, delivered>>
       ELSE /\ pc' = "finally"
            /\ UNCHANGED <<previous_message, error, attempts, delivered, effects>>
    /\ UNCHANGED <<env, timestamp, response, homework, message, raising, http,
                   cursor0, last0, failed0, validated, parsed>>

\* lines 157-162 without the comparison with previous_message
HandleErrorUnconditionally ==
    /\ pc = "except"
    /\ UNCHANGED slept
    /\ LET text == FailurePrefix \o error.text
       IN  /\ message' = text
           /\ \E o \in SendOutcomes :
                 LET r == send_message(text, o)
                 IN  /\ attempts' = Append(attempts, Attempt(text, r.ok))
                     /\ effects' = effects \cup {"send"}
                     /\ IF r.ok
                        THEN /\ previous_message' = text
                             /\ delivered' = Push(delivered, text)
                             /\ UNCHANGED <<error, raising>>
                        ELSE /\ error' = r.error
                             /\ raising' = TRUE
                             /\ UNCHANGED <<previous_message, delivered>>
    /\ pc' = "finally"
    /\ UNCHANGED <<env, timestamp, response, homework, http, cursor0, last0, failed0,
                   validated, parsed>>

\* lines 157-162 without the assignment of line 162
HandleErrorForgetful ==
    /\ pc = "except"
    /\ UNCHANGED slept
    /\ LET text == FailurePrefix \o error.text
       IN  /\ message' = text
           /\ IF text # previous_message
              THEN \E o \in SendOutcomes :
                     LET r == send_message(text, o)
                     IN  /\ attempts' = Append(attempts, Attempt(text, r.ok))
                         /\ effects' = effects \cup {"send"}
                         /\ UNCHANGED previous_message
                         /\ IF r.ok
                            THEN /\ delivered' = Push(delivered, text)
                                 /\ UNCHANGED <<error, raising>>
                            ELSE /\ error' = r.error
                                 /\ raising' = TRUE
                                 /\ UNCHANGED delivered
              ELSE UNCHANGED <<previous_message, error, raising, attempts,
                               delivered, effects>>
    /\ pc' = "finally"
    /\ UNCHANGED <<env, timestamp, response, homework, http, cursor0, last0, failed0,
                   validated, parsed>>

\* lines 157-162: the diagnostic message; a MessageError raised here is not
\* caught by any clause and leaves main() after the finally clause
HandleError ==
    /\ pc = "except"
    /\ UNCHANGED slept
    /\ LET text == FailurePrefix \o error.text
       IN  /\ message' = text
           /\ IF text # previous_message
              THEN \E o \in SendOutcomes :
                     LET r == send_message(text, o)
                     IN  /\ attempts' = Append(attempts, Attempt(text, r.ok))
                         /\ effects' = effects \cup {"send"}
                         /\ IF r.ok
                            THEN /\ previous_message' = text
                                 /\ delivered' = Push(delivered, text)
                                 /\ UNCHANGED <<error, raising>>
                            ELSE /\ error' = r.error
                                 /\ raising' = TRUE
                                 /\ UNCHANGED <<previous_message, delivered>>
              ELSE UNCHANGED <<previous_message, error, raising, attempts,
                               delivered, effects>>
    /\ pc' = "finally"
    /\ UNCHANGED <<env, timestamp, response, homework, http, cursor0, last0, failed0,
                   validated, parsed>>

\* the sleep placed at the end of the try block instead of the finally
\* clause: a cycle that raised does not sleep
SleepOnlyOnSuccess ==
    /\ pc = "finally"
    /\ IF error = NoError
       THEN /\ effects' = effects \cup {"sleep"}
            /\ slept' = Append(slept, RETRY_PERIOD)
       ELSE UNCHANGED <<effects, slept>>
    /\ IF raising
       THEN /\ pc' = "crashed"
            /\ UNCHANGED <<response, homework, message, error, http, cursor0,
                           last0, failed0, validated, parsed, attempts>>
       ELSE /\ pc' = "fetch"
            /\ response' = NoPayload
            /\ homework' = <<>>
            /\ message' = ""
            /\ error' = NoError
            /\ http' = NoHttp
            /\ cursor0' = timestamp
            /\ last0' = previous_message
            /\ failed0' = IF attempts # <<>> /\ ~attempts[1].ok
                          THEN attempts[1].text ELSE ""
            /\ validated' = "no"
            /\ parsed' = FALSE
            /\ attempts' = <<>>
    /\ UNCHANGED <<env, timestamp, previous_message, raising, delivered>>

\* lines 163-164 and the loop's back edge: time.sleep(RETRY_PERIOD), then
\* either the next iteration or the pending exception leaves main().
\* response, homework and message are dead at the back edge (each is
\* assigned before it is read again), the exception name is unbound when
\* its clause ends; the per-cycle history starts afresh.
Sleep ==
    /\ pc = "finally"
    /\ effects' = effects \cup {"sleep"}
    /\ slept' = Append(slept, RETRY_PERIOD)
    /\ IF raising
       THEN /\ pc' = "crashed"
            /\ UNCHANGED <<response, homework, message, error, http, cursor0,
                           last0, failed0, validated, parsed, attempts>>
       ELSE /\ pc' = "fetch"
            /\ response' = NoPayload
            /\ homework' = <<>>
            /\ message' = ""
            /\ error' = NoError
            /\ http' = NoHttp
            /\ cursor0' = timestamp
            /\ last0' = previous_message
            /\ failed0' = IF attempts # <<>> /\ ~attempts[1].ok
                          THEN attempts[1].text ELSE ""
            /\ validated' = "no"
            /\ parsed' = FALSE
            /\ attempts' = <<>>
    /\ UNCHANGED <<env, timestamp, previous_message, raising, delivered>>

Next ==
    \/ Startup
    \/ Fetch
    \/ UpdateCursor
    \/ Validate
    \/ Interpret
    \/ Deliver
    \/ HandleError
    \/ Sleep

Spec == Init /\ [][Next]_vars

TypeOK ==
    /\ pc \in {"start", "fetch", "cursor", "validate", "interpret", "deliver",
               "except", "finally", "exited", "crashed"}
    /\ env \in Envs
    /\ timestamp \in {NoValue} \cup Times \cup ServerDates
    /\ Len(attempts) <= 2
    /\ Len(delivered) <= 2
    /\ Len(slept) <= 1
    /\ effects \subseteq {"fetch", "send", "sleep"}

-----------------------------------------------------------------------------
(* Vocabulary of the properties *)

HasPrefix(t, p) == Len(t) >= Len(p) /\ SubSeq(t, 1, Len(p)) = p

StatusPrefix == "Izmenilsya status proverki raboty"

\* a text that reports a homework status, as opposed to a diagnostic
IsStatusText(t) == HasPrefix(t, StatusPrefix)
IsDiagnostic(t) == HasPrefix(t, FailurePrefix)

AttemptTexts == {attempts[i].text : i \in 1..Len(attempts)}

ConfigMissing ==
    \E k \in {"PRACTICUM_TOKEN", "TELEGRAM_TOKEN", "TELEGRAM_CHAT_ID"} :
        env[k] \in {Absent, ""}

\* the request of this cycle did not produce a decoded body
FetchFailed ==
    /\ http # NoHttp
    /\ (http.raised # "" \/ http.code # 200 \/ ~http.decodable)

CycleOver == pc \in {"finally", "crashed"}

-----------------------------------------------------------------------------
(* C1: no two consecutive successfully delivered messages have the same    *)
(* text, whatever the cycles were.                                         *)
C1_NoConsecutiveDuplicates ==
    Len(delivered) = 2 => delivered[1] # delivered[2]

\* two messages were delivered and a later cycle derived the last one again
C1_Witness ==
    /\ Len(delivered) = 2
    /\ pc = "finally"
    /\ validated = "ok"
    /\ message = delivered[2]
    /\ attempts = <<>>

(* C2: once the loop is entered no cycle-local error ends the process:     *)
(* every sleep is followed by the next fetch.                              *)
C2_SleepIsFollowedByFetch ==
    [][pc = "finally" => pc' = "fetch"]_vars

(* C3: with a missing configuration value the process ends before the loop *)
(* (no fetch, no send, no sleep), and the process ends in no other way.    *)
C3_MissingConfigIsTheOnlyExit ==
    /\ ConfigMissing => pc \in {"start", "exited"} /\ effects = {}
    /\ pc \in {"exited", "crashed"} => ConfigMissing

(* C4: after a cycle whose fetch succeeded and whose report passed         *)
(* validation the cursor is the report's current_date.                     *)
C4_CursorIsServerDate ==
    CycleOver /\ validated = "ok" => timestamp = response.current_date

(* C5: a cycle whose fetch failed (transport error, response code other    *)
(* than 200, undecodable body) leaves the cursor as it was.                *)
C5_FetchFailureKeepsCursor ==
    FetchFailed => timestamp = cursor0

\* a cycle that got 503 is over, its diagnostic was handed to the notifier
C5_Witness ==
    /\ pc = "finally"
    /\ http.code = 503
    /\ attempts # <<>>
    /\ timestamp = cursor0

(* C6: the error that reaches main() after a response code other than 200  *)
(* is StatusCodeError, after a transport error it is AnswerError.          *)
C6_ErrorKinds ==
    pc = "except" /\ FetchFailed =>
        /\ http.raised # "" => error.type = "AnswerError"
        /\ http.raised = "" /\ http.code # 200 => error.type = "StatusCodeError"

(* C7: a first record whose status is not approved, reviewing or rejected  *)
(* (or is missing) fails with ParseError and nothing is sent in the cycle. *)
BadStatus(r) == r.status \notin {"approved", "reviewing", "rejected"}

C7_UnknownStatusSendsNothing ==
    parsed /\ BadStatus(homework[1]) =>
        /\ pc # "deliver"
        /\ pc = "except" => error.type = "ParseError"
        /\ attempts = <<>>

(* C7 as amended: such a record fails with ParseError and no status text   *)
(* is sent in the cycle; the one send the cycle may make carries the       *)
(* diagnostic text of the ParseError.                                      *)
C7_UnknownStatusSendsNoStatusText ==
    parsed /\ BadStatus(homework[1]) =>
        /\ pc # "deliver"
        /\ pc = "except" => error.type = "ParseError"
        /\ Len(attempts) <= 1
        /\ \A t \in AttemptTexts :
              /\ ~IsStatusText(t)
              /\ t \in {"Sboy v rabote programmy: API vozvrashchaet nedokumentirovannyy status domashney raboty",
                        "Sboy v rabote programmy: V otvete API domashki net klyucha homework_name"}

\* the cycle of a record with status "unknown_status" delivered its diagnostic
C7_Witness ==
    /\ pc = "finally"
    /\ parsed
    /\ homework[1].status = "unknown_status"
    /\ Len(attempts) = 1
    /\ attempts[1].ok

(* C8: validation fails exactly when the payload is not a record, lacks    *)
(* homeworks or current_date, or homeworks is not a sequence; otherwise it *)
(* returns the homeworks sequence unchanged; a cycle whose payload fails   *)
(* validation sends no text other than a diagnostic.                       *)
SchemaBad(r) ==
    \/ r.kind # "dict"
    \/ r.hw = "absent"
    \/ r.current_date = NoValue
    \/ r.hw # "list"

C8_ValidationGate ==
    /\ response # NoPayload =>
          LET v == check_response(response)
          IN  /\ v.ok <=> ~SchemaBad(response)
              /\ v.ok => v.homeworks = response.items
              /\ ~v.ok => v.error.type \in {"TypeError", "KeyError"}
    /\ validated = "ok" => ~SchemaBad(response) /\ homework = response.items
    /\ validated = "failed" =>
          SchemaBad(response) /\ (pc = "except" => error.type \in {"TypeError", "KeyError"})
    /\ response # NoPayload /\ ~SchemaBad(response) /\ pc \notin {"cursor", "validate"} =>
          validated = "ok"
    /\ response # NoPayload /\ SchemaBad(response) =>
          /\ pc \notin {"interpret", "deliver"}
          /\ ~parsed
          /\ \A t \in AttemptTexts : IsDiagnostic(t)

\* a payload without "homeworks" was rejected and its diagnostic handed over
C8_Witness ==
    /\ pc = "finally"
    /\ validated = "failed"
    /\ response.kind = "dict"
    /\ response.hw = "absent"
    /\ attempts # <<>>

(* C9: a record with name N, label L and a status S of the verdict table   *)
(* yields exactly 'Izmenilsya status proverki raboty "N" (L). V' with V    *)
(* the verdict of S; a record without a name fails with ParseError.        *)
C9_StatusText ==
    parsed =>
        LET r == homework[1]
            derived == pc = "deliver" \/ (pc = "finally" /\ error = NoError)
        IN  /\ /\ r.homework_name # Absent
               /\ r.lesson_name # Absent
               /\ r.status \in {"approved", "reviewing", "rejected"}
               => /\ pc = "except" => error.type = "MessageError"
                  /\ derived =>
                        message = "Izmenilsya status proverki raboty \""
                                      \o r.homework_name \o "\" (" \o r.lesson_name
                                      \o "). " \o HOMEWORK_VERDICTS[r.status]
            /\ r = Record("X", "Y", "approved") /\ derived =>
                  message = "Izmenilsya status proverki raboty \"X\" (Y). Rabota proverena: revyueru vsyo ponravilos. Ura!"
            /\ r.homework_name = Absent =>
                  /\ pc # "deliver"
                  /\ pc = "except" => error.type = "ParseError"

\* the approved record X / Y was interpreted
C9_Witness ==
    /\ pc = "deliver"
    /\ parsed
    /\ homework[1] = Record("X", "Y", "approved")

(* C10: a cycle whose validated homeworks sequence is empty derives the    *)
(* static text without calling parse_status, and makes no send when that   *)
(* text is the one sent last.                                              *)
C10_EmptyListStaticMessage ==
    validated = "ok" /\ homework = <<>> /\ pc # "interpret" =>
        /\ ~parsed
        /\ pc = "deliver" \/ (pc = "finally" /\ error = NoError) =>
              message = NoNewStatuses
        /\ attempts # <<>> => attempts[1].text = NoNewStatuses
        /\ last0 = NoNewStatuses => attempts = <<>> /\ pc # "except"

\* the static text was derived again and not sent
C10_Witness ==
    /\ pc = "finally"
    /\ validated = "ok"
    /\ homework = <<>>
    /\ last0 = NoNewStatuses
    /\ message = NoNewStatuses
    /\ attempts = <<>>

(* C11: a cycle that receives a report R while the text sent last is the   *)
(* message R derives (as after a cycle with the same R that ended so)      *)
(* makes no send and leaves the text sent last as it is.                   *)
Derives(r) == r.items = <<>> \/ parse_status(r.items[1]).ok

DerivedText(r) ==
    IF r.items = <<>> THEN NoNewStatuses ELSE parse_status(r.items[1]).text

C11_SameReportSendsNothing ==
    /\ validated = "ok"
    /\ pc # "interpret"
    /\ Derives(response)
    /\ last0 = DerivedText(response)
    => /\ pc \in {"deliver", "finally"}
       /\ message = last0
       /\ attempts = <<>>
       /\ previous_message = last0

\* a status text that was sent before was derived again and not sent
C11_Witness ==
    /\ pc = "finally"
    /\ validated = "ok"
    /\ homework # <<>>
    /\ IsStatusText(message)
    /\ last0 = message
    /\ delivered # <<>>
    /\ delivered[Len(delivered)] = message
    /\ attempts = <<>>

(* C12: when the send of the cycle's message fails, no diagnostic about    *)
(* that failure is composed and no further send is made in the cycle,      *)
(* which goes on to the sleep.                                             *)
C12_DeliveryFailureIsOnlyLogged ==
    /\ attempts # <<>>
    /\ ~attempts[1].ok
    /\ ~IsDiagnostic(attempts[1].text)
    /\ pc # "except"
    => /\ pc = "finally"
       /\ ~raising
       /\ Len(attempts) = 1
       /\ message = attempts[1].text

(* C13: a cycle whose fetch succeeded and whose payload fails validation   *)
(* (not a record, no homeworks, no current_date, homeworks not a list)     *)
(* leaves the cursor as it was.                                            *)
C13_SchemaFailureKeepsCursor ==
    CycleOver /\ response # NoPayload /\ SchemaBad(response) =>
        timestamp = cursor0

(* C14: a send that fails leaves the text sent last unchanged, which only  *)
(* a successful send overwrites; so the cycle after a failed send of M     *)
(* that derives M again finds M different from the text sent last and      *)
(* sends it.                                                               *)
LastAttempt(a) == a[Len(a)]

FailedSendStep ==
    Len(attempts') > Len(attempts) /\ ~LastAttempt(attempts').ok

SuccessfulSendStep ==
    Len(attempts') > Len(attempts) /\ LastAttempt(attempts').ok

C14_FailedSendKeepsLastMessage ==
    /\ [][FailedSendStep => previous_message' = previous_message]_vars
    /\ [][previous_message' # previous_message => SuccessfulSendStep]_vars
    /\ [](\A i \in 1..Len(attempts) :
              ~attempts[i].ok => attempts[i].text # previous_message)
    /\ [](pc = "deliver" /\ failed0 # "" /\ message = failed0 =>
              message # previous_message)
    /\ [][pc = "deliver" /\ failed0 # "" /\ message = failed0 =>
              Len(attempts') = 1 /\ attempts'[1].text = message]_vars

\* the text whose send failed in the previous cycle was derived and sent again
C14_Witness ==
    /\ failed0 # ""
    /\ pc = "finally"
    /\ attempts = <<Attempt(failed0, TRUE)>>
    /\ previous_message = failed0

(* C15: every cycle, whatever its outcome, makes exactly one sleep of the  *)
(* fixed period: between two consecutive fetches there is exactly one      *)
(* sleep, and the sleep makes no fetch and no send.                        *)
C15_OneSleepPerCycle ==
    /\ [](pc = "fetch" =>
              slept = IF "fetch" \in effects THEN <<RETRY_PERIOD>> ELSE <<>>)
    /\ [](pc \in {"cursor", "validate", "interpret", "deliver", "except", "finally"} =>
              slept = <<>>)
    /\ [](pc = "crashed" => slept = <<RETRY_PERIOD>>)
    /\ [][Len(slept') > Len(slept) =>
              /\ http' \in {http, NoHttp}
              /\ Len(attempts') <= Len(attempts)
              /\ delivered' = delivered]_vars

\* the cycle after a failed one is about to fetch, one sleep behind it
C15_Witness ==
    /\ pc = "fetch"
    /\ slept = <<RETRY_PERIOD>>
    /\ IsDiagnostic(previous_message)
    /\ failed0 # ""

(* C16: a cycle that fails with a fetch, schema or parse error composes a  *)
(* diagnostic text and hands it to the notifier exactly when it differs    *)
(* from the text sent last; a successful send makes it the text sent last, *)
(* so a failure repeating the same text is notified once.                  *)
CycleFailed ==
    \/ FetchFailed
    \/ response # NoPayload /\ SchemaBad(response)
    \/ parsed /\ ~parse_status(homework[1]).ok

C16_DiagnosticIsDeduplicated ==
    CycleOver /\ CycleFailed =>
        /\ IsDiagnostic(message)
        /\ message # last0 => Len(attempts) = 1 /\ attempts[1].text = message
        /\ message = last0 => attempts = <<>>
        /\ attempts # <<>> /\ attempts[1].ok => previous_message = message
        /\ attempts = <<>> \/ ~attempts[1].ok => previous_message = last0

\* the same fetch failure again: its diagnostic is the text sent last
C16_Witness ==
    /\ pc = "finally"
    /\ FetchFailed
    /\ message = last0
    /\ delivered # <<>>
    /\ delivered[Len(delivered)] = message
    /\ attempts = <<>>

(* C17: when the text sent last is a diagnostic, the next cycle that       *)
(* succeeds sends the message it derives, also when that message is the    *)
(* status text that was sent before the diagnostic.                        *)
C17_StatusResumesAfterFailure ==
    /\ IsDiagnostic(last0)
    /\ validated = "ok"
    /\ Derives(response)
    /\ pc \notin {"interpret", "deliver"}
    => /\ attempts # <<>>
       /\ attempts[1].text = DerivedText(response)

\* M, then a diagnostic were delivered, and M is handed to the notifier again
C17_Witness ==
    /\ Len(delivered) = 2
    /\ IsStatusText(delivered[1])
    /\ IsDiagnostic(delivered[2])
    /\ last0 = delivered[2]
    /\ pc = "except"
    /\ attempts = <<Attempt(delivered[1], FALSE)>>

(* C18: of a validated homeworks sequence only the first record counts:    *)
(* the message, the decision to send, the cursor and the text sent last    *)
(* are given by the first record, the other fields of the report and the   *)
(* state before the cycle, whatever the later records are.                 *)
C18_OnlyFirstRecordCounts ==
    validated = "ok" /\ homework # <<>> /\ pc # "interpret" =>
        LET first == parse_status(homework[1])
            text == IF first.ok THEN first.text
                    ELSE FailurePrefix \o first.error.text
        IN  /\ parsed
            /\ first.ok => (pc = "deliver" => message = text)
            /\ ~first.ok => /\ pc # "deliver"
                            /\ pc = "except" => error = first.error
                            /\ CycleOver => message = text
            /\ pc # "deliver" /\ ~(pc = "except" /\ ~first.ok) =>
                  (attempts = <<>> <=> text = last0)
            /\ attempts # <<>> => attempts[1].text = text
            /\ timestamp \in IF response.current_data # NoValue
                              THEN {response.current_data} ELSE Times
            /\ previous_message \in
                  {last0} \cup {attempts[i].text : i \in {j \in 1..Len(attempts) : attempts[j].ok}}

\* the first record was reported although the second one is unusable
C18_Witness ==
    /\ pc = "finally"
    /\ validated = "ok"
    /\ Len(homework) = 2
    /\ homework[1] = Record("X", "Y", "approved")
    /\ homework[2] = Record(Absent, "Y", "unknown_status")
    /\ attempts = <<Attempt(parse_status(homework[1]).text, TRUE)>>

(* C19: the text sent last is always the text of the most recent           *)
(* successful send, the empty text while there was none; only a successful *)
(* send changes it.                                                        *)
C19_LastMessageIsLastDelivered ==
    /\ [](previous_message =
              IF delivered = <<>> THEN "" ELSE delivered[Len(delivered)])
    /\ [][previous_message' # previous_message =>
              /\ SuccessfulSendStep
              /\ previous_message' = LastAttempt(attempts').text]_vars

\* two texts were delivered, the second one is the text sent last
C19_Witness ==
    /\ pc = "fetch"
    /\ Len(delivered) = 2
    /\ previous_message = delivered[2]
    /\ IsDiagnostic(delivered[1])

(* C20: a cycle delivers at most one message in at most two sends; a       *)
(* second send happens only after the send of the cycle's message failed,  *)
(* and it carries a diagnostic, never the text of the first send.          *)
C20_AtMostTwoSends ==
    /\ Len(attempts) <= 2
    /\ Cardinality({i \in 1..Len(attempts) : attempts[i].ok}) <= 1
    /\ Len(attempts) = 2 =>
          /\ ~attempts[1].ok
          /\ ~IsDiagnostic(attempts[1].text)
          /\ IsDiagnostic(attempts[2].text)
          /\ attempts[2].text # attempts[1].text

\* the send of the status text failed and the diagnostic about it went out
C20_Witness ==
    /\ pc = "finally"
    /\ Len(attempts) = 2
    /\ IsStatusText(attempts[1].text)
    /\ attempts[2].ok

====
